---- MODULE Spec2Model ----
(***************************************************************************)
(* The agent orchestration state machine of Agentic Studio Pro.            *)
(*                                                                         *)
(* The repository holds three builds of the same application, and the      *)
(* model covers all three; `variant` says which build is running:          *)
(*   "App"  src/App.tsx (second App component, lines 1040-1815):           *)
(*          manager, planner, designer, architect, coder, compiler,        *)
(*          patcher; try/catch in every handler; Reset; Logout.            *)
(*   "P2"   src/unnamed/part_002: adds the reviewer, history snapshots,    *)
(*          rollback, the audit Fix and the Theme Laboratory.              *)
(*   "P4"   src/unnamed/part_004: adds the plugin registry.                *)
(*                                                                         *)
(* React is modelled as follows.  `project` is the one state value;        *)
(* setProject(prev => ...) calls made in one synchronous stretch of code   *)
(* are applied in order and committed as one render (automatic batching).  *)
(* After a commit the orchestrator effect runs when one of its             *)
(* dependencies differs from the previous commit; it starts the handler    *)
(* for the committed status, and the handler closes over the committed     *)
(* `project` (field `cl` of a handler).  A handler runs synchronously up   *)
(* to its first await; the rest of it is one action per awaited result.    *)
(* Nothing cancels a handler.                                              *)
(***************************************************************************)
EXTENDS Integers, Sequences, FiniteSets, TLC

VARIABLES
  variant,    \* which build is running
  project,    \* the ProjectState value held by useState
  user,       \* TRUE iff a user is logged in (user !== null)
  inflight,   \* the handlers that are awaiting something, in start order
  heap,       \* the nested `colors` objects of design systems, by reference
  obs,        \* observation of the run (history variables, no program state)
  events,     \* number of environment events so far (see MaxEvents)
  disk,       \* what localStorage holds under STORAGE_KEY
  timeoutId   \* TRUE iff App.tsx's debounced auto-save timer is pending

vars == <<variant, project, user, inflight, heap, obs, events, disk, timeoutId>>

\* ------------------------------------------------------------------ bounds

\* Environment events per behaviour: user actions, saves, page reloads,
\* resource ticks, and LLM calls that reject or return an empty value.  Handler
\* steps with well-formed results and the compiler's random failure are not
\* counted.
MaxEvents == 3

\* ------------------------------------------------------------ value domains

Variants == {"App", "P2", "P4"}

\* Paths of the virtual file system, in the order Object.keys lists them.
Paths == <<"src/App.tsx", "src/lib/mockData.ts">>
PathSet == {Paths[i] : i \in 1..Len(Paths)}

Absent == "<absent>"

EmptyFS == [f \in PathSet |-> Absent]

Keys(fs) == SelectSeq(Paths, LAMBDA f : fs[f] # Absent)

\* plan: undefined, {} (an empty response), or {features, files, dependencies}
PlanUndef == [k |-> "undefined", files |-> <<>>]
PlanEmpty == [k |-> "empty", files |-> <<>>]
PlanFull == [k |-> "obj", files |-> Paths]
\* a plan the schema accepts whose files leave out src/App.tsx
PlanLib == [k |-> "obj", files |-> <<"src/lib/mockData.ts">>]

\* designSystem: undefined, {} or an object whose nested `colors` object is
\* heap[colors]
DesignUndef == [k |-> "undefined", colors |-> 0]
DesignEmpty == [k |-> "empty", colors |-> 0]
DesignObj(ref) == [k |-> "obj", colors |-> ref]

Colors == {"#111", "#222"}

\* activeReview: null, {} or a report
ReviewNull == [k |-> "null", score |-> 0, comments |-> <<>>]
ReviewEmpty == [k |-> "empty", score |-> 0, comments |-> <<>>]
ReviewObj == [k |-> "obj", score |-> 80, comments |-> <<"src/App.tsx">>]

SrsUndef == "<undefined>"

Falsy(s) == s = SrsUndef \/ s = "" \/ s = Absent

NoFile == "<null>"
NoId == 0

\* ------------------------------------------------------ the LLM's outcomes
\* Every call either rejects (ok = FALSE) or returns a value; `response.text
\* || ""` and `JSON.parse(response.text || "{}")` make the empty values
\* possible results.

getManagerResponse ==
  {[ok |-> FALSE, v |-> ""], [ok |-> TRUE, v |-> ""], [ok |-> TRUE, v |-> "SRS"]}

getPlannerResponse ==
  {[ok |-> FALSE, v |-> PlanEmpty], [ok |-> TRUE, v |-> PlanEmpty],
   [ok |-> TRUE, v |-> PlanFull], [ok |-> TRUE, v |-> PlanLib]}

\* the designer's answer: rejected, {} or a full theme (a fresh object)
getDesignerResponse == {"throw", "empty", "obj"}

getCoderResponse == {[ok |-> FALSE, v |-> ""], [ok |-> TRUE, v |-> "code"]}

getPatcherResponse == {[ok |-> FALSE, v |-> ""], [ok |-> TRUE, v |-> "patch"]}

getReviewResponse ==
  {[ok |-> FALSE, v |-> ReviewEmpty], [ok |-> TRUE, v |-> ReviewEmpty],
   [ok |-> TRUE, v |-> ReviewObj]}

\* a plugin's answer: rejected, {} or {comments, mutations}
executePluginAgent ==
  {[ok |-> FALSE, comments |-> <<>>, mutations |-> <<>>],
   [ok |-> TRUE, comments |-> <<>>, mutations |-> <<>>],
   [ok |-> TRUE, comments |-> <<"src/App.tsx">>,
    mutations |-> <<[file |-> "src/App.tsx", content |-> "plugin"]>>]}

\* ------------------------------------------------------------ project state

DEFAULT_PLUGINS ==
  << [id |-> "shield-6", hook |-> "post-audit", enabled |-> FALSE],
     [id |-> "scribe-seo", hook |-> "post-coding", enabled |-> FALSE],
     [id |-> "pulse-test", hook |-> "on-demand", enabled |-> FALSE] >>

DefaultProject(v) ==
  [ userPrompt |-> "",
    srs |-> SrsUndef,
    plan |-> PlanUndef,
    designSystem |-> DesignUndef,
    fileSystem |-> EmptyFS,
    terminalLogs |-> << CASE v = "App" -> "Welcome to Agentic Studio Pro."
                          [] v = "P2" -> "Neural link established."
                          [] OTHER -> "Neural orchestrator online." >>,
    status |-> "idle",
    iterationCount |-> 0,
    currentFile |-> NoFile,
    history |-> <<>>,
    selectedHistoryId |-> NoId,
    activeReview |-> ReviewNull,
    installedPlugins |-> IF v = "P4" THEN DEFAULT_PLUGINS ELSE <<>>,
    \* cpu in thousandths of a percent, memory in MB; vfsSize and processes
    \* are functions of the tick's fileSystem and status and are left out
    resources |-> IF v = "P2" THEN [cpu |-> 1200, memory |-> 124]
                  ELSE [cpu |-> 0, memory |-> 0] ]

addLog(p, msg) == [p EXCEPT !.terminalLogs = Append(@, msg)]

\* localStorage under STORAGE_KEY: no item, or the JSON of a project.  Of the
\* fields the model keeps, JSON.stringify drops none that restore reads back.
NoItem(v) == [saved |-> FALSE, p |-> DefaultProject(v)]

Stored(p) == [saved |-> TRUE, p |-> p]

\* ---------------------------------------------------------------- handlers

\* A handler in flight: the status it was started for, the `project` of the
\* render that started it, and where it is: k is the index of the file being
\* coded, todo the plugins still to dispatch, rev the reviewer's local report.
Handler(stage, cl, k) ==
  [stage |-> stage, cl |-> cl, k |-> k, rev |-> ReviewNull, todo |-> <<>>]

Stages ==
  {"managing", "planning", "designing", "architecting", "coding", "reviewing",
   "compiling", "healing"}

Remove(s, i) == SubSeq(s, 1, i - 1) \o SubSeq(s, i + 1, Len(s))

\* ------------------------------------------------------------- observation
\* calm   : the run was started from idle or ready with nothing in flight,
\*          and no other user action has happened since
\* trace  : the values status has taken since the run started, while calm
\* allOk  : every LLM call of the run returned a well-formed value
\* hist0  : Len(history) right after startGeneration
\* op     : the operation that made the last step
\* moves  : the status changes handlers made in the last step, each as
\*          <<stage the handler was started for, status before, status after>>
\* starts : how often a handler was started since status last changed
\* threw  : a call inside a stage handler threw or rejected in the last step
\* heals  : how often status became healing since the run started
\* calls  : the plugin invocations of the last step, each with the handler
\*          that made it (`at`) and the plugin's enabled flag in live state
\* res    : what the plugin calls that returned in the last step gave back
\* muts   : the mutations post-coding plugins returned since the run started
\* reset  : Reset has happened and no run has been started since

InitObs ==
  [trace |-> <<>>, calm |-> FALSE, allOk |-> TRUE, hist0 |-> 0,
   op |-> "init", moves |-> <<>>, starts |-> 0, threw |-> FALSE, heals |-> 0,
   calls |-> <<>>, res |-> <<>>, muts |-> {}, reset |-> FALSE]

World(p, hs, hp, ob, dk) ==
  [p |-> p, hs |-> hs, heap |-> hp, obs |-> ob, disk |-> dk]

NoteStatus(ob, from, to) ==
  IF from = to THEN ob
  ELSE [ob EXCEPT !.trace = IF ob.calm THEN Append(@, to) ELSE <<>>,
                  !.starts = 0,
                  !.heals = IF to = "healing" THEN @ + 1 ELSE @]

NoteMove(ob, actor, from, to) ==
  IF from = to THEN ob ELSE [ob EXCEPT !.moves = Append(@, <<actor, from, to>>)]

\* Plugin pl is invoked by the handler for `at` (executePluginAgent is called).
NoteCall(w, pl, at) ==
  [w EXCEPT !.obs = [@ EXCEPT !.calls = Append(@,
     [id |-> pl.id, hook |-> pl.hook, at |-> at,
      live |-> \E n \in 1..Len(w.p.installedPlugins) :
                 /\ w.p.installedPlugins[n].id = pl.id
                 /\ w.p.installedPlugins[n].enabled])]]

\* The plugin call of the handler for `at` returned r (or threw: r.ok FALSE);
\* `design` says whether the design system handed to it was a full object.
NoteResult(w, at, r, design) ==
  [w EXCEPT !.obs = [@ EXCEPT
     !.res = Append(@, [at |-> at, r |-> r, design |-> design.k = "obj"]),
     !.muts = IF at = "coding" /\ r.ok
              THEN @ \cup {r.mutations[j] : j \in 1..Len(r.mutations)}
              ELSE @]]

\* A handler of `stage` replaces the project by q in one synchronous stretch.
HandlerSets(w, stage, q) ==
  [w EXCEPT !.p = q,
            !.obs = [NoteMove(@, stage, w.p.status, q.status)
                       EXCEPT !.threw = @ \/ q.status = "error"]]

Threw(w) == [w EXCEPT !.obs = [@ EXCEPT !.threw = TRUE]]

\* The handler for `stage` is started and awaits its first call.
Spawn(w, q, stage, k) ==
  [w EXCEPT !.p = q,
            !.hs = Append(@, Handler(stage, w.p, k)),
            !.obs = [@ EXCEPT !.starts = @ + 1]]

\* The handler for `stage` is started and finishes without awaiting.
RunSync(w, stage, q) ==
  [HandlerSets(w, stage, q) EXCEPT !.obs = [@ EXCEPT !.starts = @ + 1]]

\* The handler is started and throws before it awaits or sets anything (an
\* unhandled rejection of executeCycle's promise).
Dies(w) == [w EXCEPT !.obs = [@ EXCEPT !.starts = @ + 1, !.threw = TRUE]]

\* ---------------------------------------------------------------- snapshots
\* `seen` is not a field of HistorySnapshot: it records what the snapshot's
\* design system looked like when it was captured.

Look(hp, design) == IF design.k = "obj" THEN hp[design.colors] ELSE ""

\* captureSnapshot storing the new snapshot in place of the history, which
\* C10_AppendOnly has to reject.
captureSnapshot_Replaces(p, label, hp) ==
  [p EXCEPT !.history = <<[id |-> Len(p.history) + 1, label |-> label,
                           status |-> p.status, fileSystem |-> p.fileSystem,
                           designSystem |-> p.designSystem,
                           terminalLogs |-> p.terminalLogs,
                           reviewReport |-> p.activeReview,
                           seen |-> Look(hp, p.designSystem)]>>]

\* captureSnapshot leaving the review report out, which C33_SnapshotAfterMerge
\* has to reject.
captureSnapshot_NoReview(p, label, hp) ==
  [p EXCEPT !.history =
     Append(@, [id |-> Len(p.history) + 1,
                label |-> label,
                status |-> p.status,
                fileSystem |-> p.fileSystem,
                designSystem |-> p.designSystem,
                terminalLogs |-> p.terminalLogs,
                reviewReport |-> ReviewNull,
                seen |-> Look(hp, p.designSystem)])]

captureSnapshot(p, label, hp) ==
  [p EXCEPT !.history =
     Append(@, [id |-> Len(p.history) + 1,
                label |-> label,
                status |-> p.status,
                fileSystem |-> p.fileSystem,
                designSystem |-> p.designSystem,
                terminalLogs |-> p.terminalLogs,
                reviewReport |-> p.activeReview,
                seen |-> Look(hp, p.designSystem)])]

initialFS(plan, text) ==
  [f \in PathSet |->
     IF \E i \in 1..Len(plan.files) : plan.files[i] = f THEN text ELSE Absent]

\* ------------------------------------------------- src/App.tsx: the effect
\* The synchronous part of each handler, run inside the effect.

runManagerStart(w) ==
  Spawn(w, addLog(w.p, "Manager: Generating SRS..."), "managing", 0)

runPlannerStart(w) ==
  IF Falsy(w.p.srs) THEN w
  ELSE Spawn(w, addLog(w.p, "Planner: Mapping file system..."), "planning", 0)

runDesignerStart(w) ==
  IF w.p.plan.k = "undefined" THEN w
  ELSE Spawn(w, addLog(w.p, "Designer: Constructing design system..."),
             "designing", 0)

runArchitect(w) ==
  IF w.p.plan.k = "undefined" THEN w
  ELSE LET logged == addLog(w.p, "Architect: Generating file structures...")
       IN IF w.p.plan.k = "empty"
          THEN \* plan.files is undefined: forEach throws, the catch runs
               RunSync(w, "architecting",
                       addLog([logged EXCEPT !.status = "error"],
                              "Error in Architect"))
          ELSE RunSync(w, "architecting",
                       [logged EXCEPT
                          !.fileSystem =
                             initialFS(w.p.plan, "// Coding in progress..."),
                          !.status = "coding"])

\* runCoder requesting the first file without setting currentFile to it, which
\* C24_SequentialCoding has to reject.
runCoderStart_NoCursor(w) ==
  IF w.p.plan.k = "undefined" \/ w.p.designSystem.k = "undefined" THEN w
  ELSE LET filesToCode == Keys(w.p.fileSystem)
       IN IF filesToCode = <<>>
          THEN RunSync(w, "coding",
                       [w.p EXCEPT !.status = "compiling", !.currentFile = NoFile])
          ELSE Spawn(w, addLog(w.p, "Coder: Implementing file..."), "coding", 1)

runCoderStart(w) ==
  IF w.p.plan.k = "undefined" \/ w.p.designSystem.k = "undefined" THEN w
  ELSE LET filesToCode == Keys(w.p.fileSystem)
       IN IF filesToCode = <<>>
          THEN RunSync(w, "coding",
                       [w.p EXCEPT !.status = "compiling", !.currentFile = NoFile])
          ELSE Spawn(w,
                     addLog([w.p EXCEPT !.currentFile = filesToCode[1]],
                            "Coder: Implementing file..."),
                     "coding", 1)

runCompilerStart(w) ==
  Spawn(w, addLog(w.p, "Compiler: Optimizing build artifacts..."), "compiling", 0)

runPatcherStart(w) ==
  Spawn(w, addLog(w.p, "Patcher: Performing self-healing mutation..."),
        "healing", 0)

EffectApp(w) ==
  CASE w.p.status = "managing" -> runManagerStart(w)
    [] w.p.status = "planning" -> runPlannerStart(w)
    [] w.p.status = "designing" -> runDesignerStart(w)
    [] w.p.status = "architecting" -> runArchitect(w)
    [] w.p.status = "coding" -> runCoderStart(w)
    [] w.p.status = "compiling" -> runCompilerStart(w)
    [] w.p.status = "healing" -> runPatcherStart(w)
    [] OTHER -> w

\* ------------------------------------- src/unnamed/part_002: the effect
\* executeCycle up to its first await.  It has no try/catch: what throws
\* rejects executeCycle's promise and nothing else happens.

P2_executeCycle(w) ==
  CASE w.p.status = "managing" -> Spawn(w, w.p, "managing", 0)
    [] w.p.status = "planning" -> Spawn(w, w.p, "planning", 0)
    [] w.p.status = "designing" ->
         \* project.plan!.features
         IF w.p.plan.k = "undefined" THEN Dies(w)
         ELSE Spawn(w, w.p, "designing", 0)
    [] w.p.status = "architecting" ->
         \* project.plan!.files.forEach
         IF w.p.plan.k # "obj" THEN Dies(w)
         ELSE RunSync(w, "architecting",
                      captureSnapshot(
                        [w.p EXCEPT
                           !.fileSystem = initialFS(w.p.plan, "// Initializing..."),
                           !.status = "coding"],
                        "FS Scaffolding", w.heap))
    [] w.p.status = "coding" ->
         IF Keys(w.p.fileSystem) = <<>>
         THEN RunSync(w, "coding",
                      captureSnapshot([w.p EXCEPT !.status = "reviewing"],
                                      "Implementation Complete", w.heap))
         ELSE Spawn(w, [w.p EXCEPT !.currentFile = Keys(w.p.fileSystem)[1]],
                    "coding", 1)
    [] w.p.status = "reviewing" ->
         Spawn(w, addLog(w.p, "> Running Neural Auditor..."), "reviewing", 0)
    [] w.p.status = "compiling" -> Spawn(w, w.p, "compiling", 0)
    [] OTHER -> w

\* ------------------------------------- src/unnamed/part_004: the effect

Hooked(plugins, hook) ==
  SelectSeq(plugins, LAMBDA pl : pl.enabled /\ pl.hook = hook)

\* executeCycle's coding branch after the loop over the files: the post-coding
\* plugins of the closure are dispatched one after the other, then the status
\* is set.  h is the handler, w the world it continues in.
\* P4_postCoding with the reviewing stage left out, which C1_StatusSequence
\* has to reject.
P4_postCoding_SkipsReview(w, h) ==
  HandlerSets(w, "coding", [w.p EXCEPT !.status = "compiling"])

P4_postCoding(w, h) ==
  LET codingPlugins == Hooked(h.cl.installedPlugins, "post-coding")
  IN IF codingPlugins = <<>>
     THEN HandlerSets(w, "coding", [w.p EXCEPT !.status = "reviewing"])
     ELSE NoteCall([w EXCEPT !.p = addLog(w.p, "> Lifecycle Hook"),
                             !.hs = Append(@, [h EXCEPT !.todo = codingPlugins])],
                   codingPlugins[1], "coding")

P4_executeCycle(w) ==
  CASE w.p.status = "managing" -> Spawn(w, w.p, "managing", 0)
    [] w.p.status = "planning" -> Spawn(w, w.p, "planning", 0)
    [] w.p.status = "designing" ->
         IF w.p.plan.k = "undefined" THEN Dies(w)
         ELSE Spawn(w, w.p, "designing", 0)
    [] w.p.status = "architecting" ->
         IF w.p.plan.k # "obj" THEN Dies(w)
         ELSE RunSync(w, "architecting",
                      [w.p EXCEPT
                         !.fileSystem = initialFS(w.p.plan, "// Initializing..."),
                         !.status = "coding"])
    [] w.p.status = "coding" ->
         IF Keys(w.p.fileSystem) = <<>>
         THEN [P4_postCoding(w, Handler("coding", w.p, 0))
                 EXCEPT !.obs = [@ EXCEPT !.starts = @ + 1]]
         ELSE Spawn(w, [w.p EXCEPT !.currentFile = Keys(w.p.fileSystem)[1]],
                    "coding", 1)
    [] w.p.status = "reviewing" -> Spawn(w, w.p, "reviewing", 0)
    [] w.p.status = "compiling" ->
         \* setTimeout(..., 800), then captureSnapshot at once
         Spawn(w, captureSnapshot(w.p, "Neural Deployment Ready", w.heap),
               "compiling", 0)
    [] OTHER -> w

\* ------------------------------------------------------ commit and effects

Deps(v, p, u) ==
  IF v = "App" THEN <<p.status, p.userPrompt, u>> ELSE <<p.status, "", u>>

Effect(v, w) ==
  CASE v = "App" -> EffectApp(w)
    [] v = "P2" -> P2_executeCycle(w)
    [] OTHER -> P4_executeCycle(w)

\* The render that commits w.p, and the effects it sets off: the orchestrator
\* effect runs when its dependencies changed, and what its handler sets
\* synchronously is committed in turn.
RECURSIVE Settle(_, _, _, _)
Settle(v, deps, u, w) ==
  LET now == Deps(v, w.p, u)
      w1 == [w EXCEPT !.obs = NoteStatus(@, deps[1], w.p.status)]
  IN IF now = deps THEN w
     ELSE IF ~u THEN w1
     ELSE Settle(v, now, u, Effect(v, w1))

\* The dependencies of App.tsx's debounced auto-save effect (activeTab and the
\* identity of saveToDisk, which changes with user, are not kept apart).
SaveDeps(p, u) == <<p.fileSystem, p.currentFile, p.userPrompt, p.status, u>>

\* The auto-save effect after a step from (project, user) through the commit
\* of p0 to the commit of p2 with login state u: its cleanup clears the timer
\* and it sets a new one, unless no user is logged in; `fired` says that the
\* step is the timer's own callback.
AutoSave(p0, p2, u, fired) ==
  IF variant # "App" \/ ~u THEN FALSE
  ELSE IF SaveDeps(p0, u) # SaveDeps(project, user)
            \/ SaveDeps(p2, u) # SaveDeps(p0, u) THEN TRUE
  ELSE timeoutId /\ ~fired

\* One step of the program: operation `op` leaves world w and login state u;
\* `cost` is the number of environment events the step takes.
Step(op, cost, w, u) ==
  LET w0 == [w EXCEPT !.obs = [@ EXCEPT !.op = op]]
      w2 == Settle(variant, Deps(variant, project, user), u, w0)
  IN /\ events + cost <= MaxEvents
     /\ events' = events + cost
     /\ project' = w2.p
     /\ inflight' = w2.hs
     /\ heap' = w2.heap
     /\ obs' = w2.obs
     /\ user' = u
     /\ variant' = variant
     \* part_002 and part_004 store the project after every commit; App.tsx
     \* stores it in saveToDisk only
     /\ disk' = IF variant = "App" THEN w2.disk ELSE Stored(w2.p)
     /\ timeoutId' = AutoSave(w0.p, w2.p, u, op = "saveToDisk" /\ cost = 0)

\* The first render of a freshly loaded page: as Step, but every effect runs
\* (the orchestrator effect whatever the status is, App.tsx's auto-save effect
\* when a user is logged in).
Mount(op, cost, w, u) ==
  LET w0 == [w EXCEPT !.obs = [@ EXCEPT !.op = op]]
      w2 == Settle(variant, <<"<mount>", "", u>>, u, w0)
  IN /\ events + cost <= MaxEvents
     /\ events' = events + cost
     /\ project' = w2.p
     /\ inflight' = w2.hs
     /\ heap' = w2.heap
     /\ obs' = w2.obs
     /\ user' = u
     /\ variant' = variant
     /\ disk' = IF variant = "App" THEN w2.disk ELSE Stored(w2.p)
     /\ timeoutId' = (variant = "App" /\ u)

Now == World(project, inflight, heap,
             [obs EXCEPT !.moves = <<>>, !.threw = FALSE,
                         !.calls = <<>>, !.res = <<>>],
             disk)

Done(i) == [Now EXCEPT !.hs = Remove(@, i)]

NoteOutcome(w, good) ==
  [w EXCEPT !.obs = [@ EXCEPT !.allOk = @ /\ good]]

Cost(good) == IF good THEN 0 ELSE 1

\* --------------------------------------------- src/App.tsx: stage handlers

runManager(i) ==
  /\ variant = "App"
  /\ inflight[i].stage = "managing"
  /\ \E r \in getManagerResponse :
       LET w == NoteOutcome(Done(i), r.ok /\ r.v # "")
           q == IF r.ok
                THEN addLog([w.p EXCEPT !.srs = r.v, !.status = "planning"],
                            "Manager: Technical blueprint completed.")
                ELSE addLog([w.p EXCEPT !.status = "error"], "Error in Manager")
       IN Step("runManager", Cost(r.ok /\ r.v # ""), HandlerSets(w, "managing", q), user)

runPlanner(i) ==
  /\ variant = "App"
  /\ inflight[i].stage = "planning"
  /\ \E r \in getPlannerResponse :
       LET w == NoteOutcome(Done(i), r.ok /\ r.v.k = "obj")
           q == IF r.ok /\ r.v.k = "obj"
                THEN addLog([w.p EXCEPT !.plan = r.v, !.status = "designing"],
                            "Planner: Scaffolded modules.")
                ELSE IF r.ok
                THEN \* plan.files.length throws after the plan was stored
                     addLog([w.p EXCEPT !.plan = r.v, !.status = "error"],
                            "Error in Planner")
                ELSE addLog([w.p EXCEPT !.status = "error"], "Error in Planner")
       IN Step("runPlanner", Cost(r.ok /\ r.v.k = "obj"), HandlerSets(w, "planning", q), user)

runDesigner(i) ==
  /\ variant = "App"
  /\ inflight[i].stage = "designing"
  /\ \E r \in getDesignerResponse :
       \* plan.features of an empty plan is undefined: features.join throws
       /\ inflight[i].cl.plan.k = "empty" => r = "throw"
       /\ LET w == NoteOutcome(Done(i), r = "obj")
              ref == Len(w.heap) + 1
              q == CASE r = "obj" ->
                          addLog([w.p EXCEPT !.designSystem = DesignObj(ref),
                                             !.status = "architecting"],
                                 "Designer: Branding finalized.")
                     [] r = "empty" ->
                          \* design.metadata.appName throws after the store
                          addLog([w.p EXCEPT !.designSystem = DesignEmpty,
                                             !.status = "error"],
                                 "Error in Designer")
                     [] OTHER ->
                          addLog([w.p EXCEPT !.status = "error"],
                                 "Error in Designer")
              w1 == IF r = "obj"
                    THEN [w EXCEPT !.heap = Append(@, "#111")] ELSE w
          IN Step("runDesigner", Cost(r = "obj"), HandlerSets(w1, "designing", q), user)

runCoder(i) ==
  /\ variant = "App"
  /\ inflight[i].stage = "coding"
  /\ \E r \in getCoderResponse :
       LET h == inflight[i]
           filesToCode == Keys(h.cl.fileSystem)
           file == filesToCode[h.k]
           \* plan.features.join throws for an empty plan
           ok == r.ok /\ h.cl.plan.k = "obj"
           w == NoteOutcome(Done(i), ok)
           written == [w.p EXCEPT !.fileSystem = [@ EXCEPT ![file] = r.v]]
       IN IF ~ok
          THEN Step("runCoder", 1,
                    HandlerSets(w, "coding",
                                addLog([w.p EXCEPT !.status = "error"],
                                       "Error in Coder")),
                    user)
          ELSE IF h.k < Len(filesToCode)
          THEN Step("runCoder", 0,
                    [w EXCEPT
                       !.p = addLog([written EXCEPT
                                       !.currentFile = filesToCode[h.k + 1]],
                                    "Coder: Implementing file..."),
                       !.hs = Append(@, [h EXCEPT !.k = h.k + 1])],
                    user)
          ELSE Step("runCoder", 0,
                    HandlerSets(w, "coding",
                                [written EXCEPT !.status = "compiling",
                                                !.currentFile = filesToCode[1]]),
                    user)

\* Math.random() < 0.25 && project.iterationCount < 1
shouldFail(random, iterationCount) == random /\ iterationCount < 1

runCompiler(i) ==
  /\ variant = "App"
  /\ inflight[i].stage = "compiling"
  /\ \E random \in BOOLEAN :
       LET w == Done(i)
           q == IF shouldFail(random, inflight[i].cl.iterationCount)
                THEN [addLog(w.p, "Compiler Error: Build failed.")
                        EXCEPT !.status = "healing"]
                ELSE [addLog(w.p, "Compiler Success: Runtime deployed.")
                        EXCEPT !.status = "ready"]
       IN Step("runCompiler", 0, HandlerSets(w, "compiling", q), user)

runPatcher(i) ==
  /\ variant = "App"
  /\ inflight[i].stage = "healing"
  /\ \E r \in getPatcherResponse :
       LET w == NoteOutcome(Done(i), r.ok)
           q == IF r.ok
                THEN [w.p EXCEPT !.fileSystem = [@ EXCEPT !["src/App.tsx"] = r.v],
                                 !.status = "compiling",
                                 !.iterationCount = @ + 1]
                ELSE addLog([w.p EXCEPT !.status = "error"], "Error in Patcher")
       IN Step("runPatcher", Cost(r.ok), HandlerSets(w, "healing", q), user)

\* ------------------------------------------------ src/App.tsx: user actions

\* A run starts: what the observation records about it.
NoteRun(ob, wasCalm, q) ==
  [ob EXCEPT !.trace = <<>>, !.calm = wasCalm, !.allOk = TRUE,
             !.hist0 = Len(q.history), !.starts = 0, !.heals = 0, !.muts = {},
             !.reset = FALSE]

NoteUser(w) == [w EXCEPT !.obs = [@ EXCEPT !.calm = FALSE, !.trace = <<>>]]

startGenerationApp ==
  /\ variant = "App"
  /\ user
  /\ project.status \in {"idle", "ready", "error"}
  /\ \E input \in {"", "todo app"} :
       IF input = ""
       THEN Step("startGeneration", 0, Now, user)
       ELSE LET q == [project EXCEPT
                        !.userPrompt = input,
                        !.status = "managing",
                        !.terminalLogs = Append(@, "> Starting workflow"),
                        !.fileSystem = EmptyFS,
                        !.srs = SrsUndef,
                        !.plan = PlanUndef,
                        !.designSystem = DesignUndef,
                        !.iterationCount = 0]
                calmStart == inflight = <<>> /\ project.status \in {"idle", "ready"}
            IN Step("startGeneration", 1,
                    [Now EXCEPT !.p = q, !.obs = NoteRun(@, calmStart, q)],
                    user)

\* Reset dropping the handlers in flight, which C19_NoCancellation has to
\* reject.
Reset_Cancels ==
  /\ variant = "App"
  /\ user
  /\ project.status # "idle"
  /\ Step("Reset", 1,
          NoteUser([Now EXCEPT
                      !.p = [DefaultProject("App") EXCEPT
                               !.terminalLogs = <<"System Reset.">>],
                      !.hs = <<>>,
                      !.disk = NoItem("App"),
                      !.obs = [@ EXCEPT !.reset = TRUE]]),
          user)

Reset ==
  /\ variant = "App"
  /\ user
  /\ project.status # "idle"
  /\ Step("Reset", 1,
          NoteUser([Now EXCEPT
                      !.p = [DefaultProject("App") EXCEPT
                               !.terminalLogs = <<"System Reset.">>],
                      !.disk = NoItem("App"),
                      !.obs = [@ EXCEPT !.reset = TRUE]]),
          user)

\* JSON.parse(JSON.stringify(p)): the value read back shares no object with
\* anything, so the live design system and every snapshot's get a `colors`
\* object of their own, holding what the shared one held.
Slot(hp, design) == IF design.k = "obj" THEN hp[design.colors] ELSE "#111"

ParsedHeap(p, hp) ==
  <<Slot(hp, p.designSystem)>>
    \o [n \in 1..Len(p.history) |-> Slot(hp, p.history[n].designSystem)]

Parsed(p) ==
  [p EXCEPT
     !.designSystem = IF @.k = "obj" THEN DesignObj(1) ELSE @,
     !.history = [n \in 1..Len(p.history) |->
                    [p.history[n] EXCEPT
                       !.designSystem = IF @.k = "obj" THEN DesignObj(n + 1)
                                        ELSE @]]]

\* The initializer of the project state: the default project when
\* localStorage holds no item, else the parsed item, which App.tsx and
\* part_002 normalise and part_004 takes as it is.
Restore(v, dk) ==
  LET parsed == Parsed(dk.p)
      status == IF parsed.status \in {"ready", "error", "idle"}
                THEN parsed.status ELSE "idle"
  IN IF ~dk.saved THEN DefaultProject(v)
     ELSE CASE v = "App" ->
                 [parsed EXCEPT !.status = status,
                                !.terminalLogs = Append(@, "> Workspace restored")]
            [] v = "P2" ->
                 [parsed EXCEPT !.status = status, !.selectedHistoryId = NoId]
            [] OTHER -> parsed

\* The page is loaded again: the handlers and timers of the old page are
\* gone, the session under SESSION_KEY is read back, the project state is
\* initialised from localStorage and the effects of the first render run.
reload ==
  /\ variant \in Variants
  /\ Mount("reload", 1,
           NoteUser(World(Restore(variant, disk), <<>>,
                          IF disk.saved THEN ParsedHeap(disk.p, heap) ELSE <<>>,
                          [obs EXCEPT !.moves = <<>>, !.threw = FALSE,
                                      !.calls = <<>>, !.res = <<>>, !.starts = 0],
                          disk)),
           user)

\* The key each build stores its project under, and the key the error
\* boundary removes.
STORAGE_KEY(v) ==
  CASE v = "App" -> "agentic_studio_pro_v1"
    [] v = "P2" -> "agentic_studio_pro_v2"
    [] OTHER -> "agentic_studio_pro_v3"

BoundaryKey == "agentic_studio_pro_v1"

\* localStorage.removeItem(key), seen from build v.
removeItem(v, key, dk) == IF key = STORAGE_KEY(v) THEN NoItem(v) ELSE dk

\* An error has reached the error boundary (a render error, an unhandled
\* rejection or a global error event), its screen has replaced the
\* application, and the user presses Restart Workflow: the item under the
\* boundary's key is removed and the page is loaded again.
handleRestartWorkflow ==
  /\ variant \in Variants
  /\ LET dk == removeItem(variant, BoundaryKey, disk)
     IN Mount("handleRestartWorkflow", 1,
              NoteUser(World(Restore(variant, dk), <<>>,
                             IF dk.saved THEN ParsedHeap(dk.p, heap) ELSE <<>>,
                             [obs EXCEPT !.moves = <<>>, !.threw = FALSE,
                                         !.calls = <<>>, !.res = <<>>,
                                         !.starts = 0],
                             dk)),
              user)

\* saveToDisk, called by the debounced auto-save timer when it is pending (no
\* environment event) and by the Save button and Ctrl+S; the save on
\* beforeunload/visibilitychange stores the same value.  The lastSaved and
\* editorViewState it sets are not part of the model.
saveToDisk ==
  /\ variant = "App"
  /\ user
  /\ \E byTimer \in BOOLEAN :
       /\ byTimer => timeoutId
       /\ Step("saveToDisk", IF byTimer THEN 0 ELSE 1,
               [Now EXCEPT !.disk = Stored(project)], user)

handleLogout ==
  /\ variant = "App"
  /\ user
  /\ Step("handleLogout", 1, NoteUser(Now), FALSE)

\* AuthScreen's onLogin = setUser.  part_004 calls useMemo after its
\* `if (!user) return`, so the render that follows a login there has more
\* hooks than the one before and throws: that build runs only when it starts
\* with a stored session.
onLogin ==
  /\ variant # "P4"
  /\ ~user
  /\ Step("onLogin", 1, NoteUser(Now), TRUE)

\* --------------------------------- src/unnamed/part_002: stage handlers
\* executeCycle after an await.  A rejected call ends the handler and sets
\* nothing.

P2_managing(i) ==
  /\ variant = "P2"
  /\ inflight[i].stage = "managing"
  /\ \E r \in getManagerResponse :
       LET w == NoteOutcome(Done(i), r.ok /\ r.v # "")
           q == captureSnapshot([w.p EXCEPT !.srs = r.v, !.status = "planning"],
                                "SRS Created", w.heap)
       IN Step("executeCycle", Cost(r.ok /\ r.v # ""),
               IF r.ok THEN HandlerSets(w, "managing", q) ELSE Threw(w), user)

P2_planning(i) ==
  /\ variant = "P2"
  /\ inflight[i].stage = "planning"
  /\ \E r \in getPlannerResponse :
       LET w == NoteOutcome(Done(i), r.ok /\ r.v.k = "obj")
           q == captureSnapshot([w.p EXCEPT !.plan = r.v, !.status = "designing"],
                                "Plan Finalized", w.heap)
       IN Step("executeCycle", Cost(r.ok /\ r.v.k = "obj"),
               IF r.ok THEN HandlerSets(w, "planning", q) ELSE Threw(w), user)

P2_designing(i) ==
  /\ variant = "P2"
  /\ inflight[i].stage = "designing"
  /\ \E r \in getDesignerResponse :
       \* features.join throws when the plan is {}
       /\ inflight[i].cl.plan.k = "empty" => r = "throw"
       /\ LET w == NoteOutcome(Done(i), r = "obj")
              w1 == IF r = "obj" THEN [w EXCEPT !.heap = Append(@, "#111")] ELSE w
              design == IF r = "obj" THEN DesignObj(Len(w1.heap)) ELSE DesignEmpty
              q == captureSnapshot([w.p EXCEPT !.designSystem = design,
                                               !.status = "architecting"],
                                   "Design Seeded", w1.heap)
          IN Step("executeCycle", Cost(r = "obj"),
                  IF r = "throw" THEN Threw(w) ELSE HandlerSets(w1, "designing", q),
                  user)

P2_coding(i) ==
  /\ variant = "P2"
  /\ inflight[i].stage = "coding"
  /\ \E r \in getCoderResponse :
       LET h == inflight[i]
           files == Keys(h.cl.fileSystem)
           file == files[h.k]
           \* plan.features.join throws unless the plan has features
           ok == r.ok /\ h.cl.plan.k = "obj"
           w == NoteOutcome(Done(i), ok)
           written == [w.p EXCEPT !.fileSystem = [@ EXCEPT ![file] = r.v]]
       IN IF ~ok THEN Step("executeCycle", 1, Threw(w), user)
          ELSE IF h.k < Len(files)
          THEN Step("executeCycle", 0,
                    [w EXCEPT !.p = [written EXCEPT !.currentFile = files[h.k + 1]],
                              !.hs = Append(@, [h EXCEPT !.k = h.k + 1])],
                    user)
          ELSE Step("executeCycle", 0,
                    HandlerSets(w, "coding",
                                captureSnapshot(
                                  [written EXCEPT !.status = "reviewing"],
                                  "Implementation Complete", w.heap)),
                    user)

P2_reviewing(i) ==
  /\ variant = "P2"
  /\ inflight[i].stage = "reviewing"
  /\ \E r \in getReviewResponse :
       LET w == NoteOutcome(Done(i), r.ok /\ r.v.k = "obj")
           q == captureSnapshot([w.p EXCEPT !.activeReview = r.v,
                                            !.status = "compiling"],
                                "Neural Audit Complete", w.heap)
       IN Step("executeCycle", Cost(r.ok /\ r.v.k = "obj"),
               IF r.ok THEN HandlerSets(w, "reviewing", q) ELSE Threw(w), user)

\* await new Promise(r => setTimeout(r, 1000))
P2_compiling(i) ==
  /\ variant = "P2"
  /\ inflight[i].stage = "compiling"
  /\ LET w == Done(i)
         q == captureSnapshot([w.p EXCEPT !.status = "ready"],
                              "Ready for Deployment", w.heap)
     IN Step("executeCycle", 0, HandlerSets(w, "compiling", q), user)

\* ----------------------------------- src/unnamed/part_002: user actions

\* The object literal of startGeneration is two literals run together (the
\* comma after `lastSaved: undefined` is missing) and names several keys
\* twice; the later value of a key is the one the object gets.
P2_startGeneration ==
  /\ variant = "P2"
  /\ user
  /\ project.status \in {"idle", "ready"}
  /\ \E input \in {"", "todo app"} :
       IF input = ""
       THEN Step("startGeneration", 0, Now, user)
       ELSE LET q == [project EXCEPT
                        !.userPrompt = input,
                        !.plan = PlanUndef,
                        !.designSystem = DesignUndef,
                        !.status = "managing",
                        !.terminalLogs = Append(@, "> Project Intent"),
                        !.fileSystem = EmptyFS,
                        !.iterationCount = 0,
                        !.currentFile = NoFile,
                        !.history = <<>>,
                        !.selectedHistoryId = NoId,
                        !.activeReview = ReviewNull]
            IN Step("startGeneration", 1,
                    [Now EXCEPT !.p = q, !.obs = NoteRun(@, inflight = <<>>, q)],
                    user)

Snapshot(p, id) == CHOOSE s \in {p.history[j] : j \in 1..Len(p.history)} : s.id = id

HasSnapshot(p, id) == \E j \in 1..Len(p.history) : p.history[j].id = id

\* HistoryTimeline's onSelect, with an id or null
\* onSelect also writing a log line, which C35_SelectionValid has to reject.
onSelect_Logs ==
  /\ variant \in {"P2", "P4"}
  /\ user
  /\ \E id \in {NoId} \cup {project.history[j].id : j \in 1..Len(project.history)} :
       /\ id # project.selectedHistoryId
       /\ Step("onSelect", 1,
               NoteUser([Now EXCEPT
                           !.p = addLog([project EXCEPT !.selectedHistoryId = id],
                                        "> Viewing snapshot")]),
               user)

onSelect ==
  /\ variant \in {"P2", "P4"}
  /\ user
  /\ \E id \in {NoId} \cup {project.history[j].id : j \in 1..Len(project.history)} :
       /\ id # project.selectedHistoryId
       /\ Step("onSelect", 1,
               NoteUser([Now EXCEPT !.p = [project EXCEPT !.selectedHistoryId = id]]),
               user)

\* handleRollback(id) leaving the live review in place, which C11_Rollback has
\* to reject.
rollback_KeepsReview(p, id) ==
  LET snap == Snapshot(p, id)
  IN [p EXCEPT !.fileSystem = snap.fileSystem,
               !.designSystem = IF snap.designSystem.k # "undefined"
                                THEN snap.designSystem ELSE @,
               !.status = "ready",
               !.terminalLogs = Append(@, "> Restored to checkpoint"),
               !.selectedHistoryId = NoId]

\* handleRollback(id) dropping the snapshots captured after the restored one,
\* which C12_RollbackIdempotent has to reject.
rollback_Truncates(p, id) ==
  LET snap == Snapshot(p, id)
  IN [p EXCEPT !.fileSystem = snap.fileSystem,
               !.designSystem = IF snap.designSystem.k # "undefined"
                                THEN snap.designSystem ELSE @,
               !.status = "ready",
               !.terminalLogs = Append(@, "> Restored to checkpoint"),
               !.activeReview = snap.reviewReport,
               !.history = SubSeq(@, 1, snap.id),
               !.selectedHistoryId = NoId]

\* handleRollback(id) restoring the snapshot's stored log, which
\* C31_LogAppendOnly has to reject.
rollback_RestoresLog(p, id) ==
  LET snap == Snapshot(p, id)
  IN [p EXCEPT !.fileSystem = snap.fileSystem,
               !.designSystem = IF snap.designSystem.k # "undefined"
                                THEN snap.designSystem ELSE @,
               !.status = "ready",
               !.terminalLogs = Append(snap.terminalLogs,
                                       "> Restored to checkpoint"),
               !.activeReview = snap.reviewReport,
               !.selectedHistoryId = NoId]

\* What handleRollback(id) makes of project p when history holds the id.
\* `snap.reviewReport || null`: a snapshot without a report stores ReviewNull.
rollback(p, id) ==
  LET snap == Snapshot(p, id)
  IN [p EXCEPT !.fileSystem = snap.fileSystem,
               !.designSystem = IF snap.designSystem.k # "undefined"
                                THEN snap.designSystem ELSE @,
               !.status = "ready",
               !.terminalLogs = Append(@, "> Restored to checkpoint"),
               !.activeReview = snap.reviewReport,
               !.selectedHistoryId = NoId]

\* The ids handleRollback is called with: the RESTORE button is rendered for
\* the selected snapshot only; the id that no snapshot has yet exercises the
\* handler's `if (!snap) return`.
RollbackIds(p) == ({p.selectedHistoryId} \ {NoId}) \cup {Len(p.history) + 1}

\* handleRollback without its guard, restoring nothing but still setting
\* status, log and selection, which C36_RollbackUnknownId has to reject.
handleRollback_Unguarded ==
  /\ variant = "P2"
  /\ user
  /\ \E id \in RollbackIds(project) :
       IF ~HasSnapshot(project, id)
       THEN Step("handleRollback: no snapshot", 1,
                 NoteUser([Now EXCEPT
                             !.p = addLog([project EXCEPT
                                             !.status = "ready",
                                             !.selectedHistoryId = NoId],
                                          "> Restored to checkpoint")]),
                 user)
       ELSE Step("handleRollback", 1,
                 NoteUser([Now EXCEPT !.p = rollback(project, id)]), user)

handleRollback ==
  /\ variant = "P2"
  /\ user
  /\ \E id \in RollbackIds(project) :
       IF ~HasSnapshot(project, id)
       THEN Step("handleRollback: no snapshot", 1, NoteUser(Now), user)
       ELSE Step("handleRollback", 1,
                 NoteUser([Now EXCEPT !.p = rollback(project, id)]), user)

\* The audit panel shows the selected snapshot's report in snapshot mode and
\* the live one otherwise; FIX is rendered for each of its comments.
ShownReport(p) ==
  IF p.selectedHistoryId # NoId
  THEN IF HasSnapshot(p, p.selectedHistoryId)
       THEN Snapshot(p, p.selectedHistoryId).reviewReport ELSE ReviewNull
  ELSE p.activeReview

handleFixAudit ==
  /\ variant = "P2"
  /\ user
  /\ \E c \in 1..Len(ShownReport(project).comments) :
       LET file == ShownReport(project).comments[c]
           currentCode == project.fileSystem[file]
       IN IF Falsy(currentCode)
          THEN Step("handleFixAudit", 1, NoteUser(Now), user)
          ELSE Step("handleFixAudit", 1,
                    NoteUser([Now EXCEPT
                       !.p = addLog([project EXCEPT !.status = "healing"],
                                    "> Neural Auditor suggesting surgical fix"),
                       !.hs = Append(@, [Handler("fix", project, 0)
                                           EXCEPT !.todo = <<file>>])]),
                    user)

handleFixAuditDone(i) ==
  /\ variant = "P2"
  /\ inflight[i].stage = "fix"
  /\ \E r \in getPatcherResponse :
       LET w == Done(i)
           file == inflight[i].todo[1]
           q == captureSnapshot(
                  addLog([w.p EXCEPT !.fileSystem = [@ EXCEPT ![file] = r.v],
                                     !.status = "ready"],
                         "> Fixed audit issue"),
                  "Auditor Fix", w.heap)
       IN Step("handleFixAudit", Cost(r.ok),
               IF r.ok THEN [w EXCEPT !.p = q] ELSE w, user)

\* The values Math.random() takes in a tick, as the amounts it adds: to the
\* cpu target (thousandths, of [0, 20000)) and to memory (of [0, 5), rounded).
RandomCpu == {0, 19000}

RandomMem == {0, 5}

\* cpuTarget of the resource loop for project prev
cpuTarget(prev, rc) ==
  IF prev.status \in {"coding", "reviewing"} THEN 65000 + rc ELSE 1500

\* The resource loop's updater clearing currentFile as well, which
\* C25_TickFrame has to reject.
ResourceLoop_MovesCursor(prev, rc, rm) ==
  [prev EXCEPT !.currentFile = NoFile,
               !.resources = [cpu |-> prev.resources.cpu, memory |-> 120 + rm]]

\* The resource loop's updater stepping twice the remaining distance, which
\* C26_CpuApproaches has to reject.
ResourceLoop_Overshoots(prev, rc, rm) ==
  [prev EXCEPT !.resources =
     [cpu |-> 2 * cpuTarget(prev, rc) - prev.resources.cpu, memory |-> 120 + rm]]

\* The state updater of the resource loop: prev => ({...prev, resources}).
\* (cpuTarget - cpu) * 0.1 is taken in whole thousandths.
ResourceLoop(prev, rc, rm) ==
  LET memBase == 120 + Len(Keys(prev.fileSystem)) * 10
                   + (IF prev.status \in {"coding", "reviewing"} THEN 200 ELSE 0)
      cpu == prev.resources.cpu
  IN [prev EXCEPT !.resources =
        [cpu |-> cpu + ((cpuTarget(prev, rc) - cpu) \div 10),
         memory |-> memBase + rm]]

\* One firing of setInterval(..., 1000); the interval is set on mount and runs
\* whether or not a user is logged in.
tick ==
  /\ variant = "P2"
  /\ \E rc \in RandomCpu, rm \in RandomMem :
       Step("tick", 1, [Now EXCEPT !.p = ResourceLoop(project, rc, rm)], user)

\* ThemeLaboratory.handleChange('colors.primary', value): newDesign is a shallow
\* copy of design, so `current` is the colors object design itself holds, and
\* the assignment writes into that object.
handleChange ==
  /\ variant \in {"P2", "P4"}
  /\ user
  /\ project.designSystem.k = "obj"
  /\ \E value \in Colors :
       /\ value # heap[project.designSystem.colors]
       /\ Step("handleChange", 1,
               NoteUser([Now EXCEPT
                           !.heap = [@ EXCEPT ![project.designSystem.colors] = value]]),
               user)

\* ThemeLaboratory's publish button: onSync = captureSnapshot("Design Update")
onSync ==
  /\ variant = "P2"
  /\ user
  /\ project.designSystem.k = "obj"
  /\ Step("onSync", 1,
          NoteUser([Now EXCEPT !.p = captureSnapshot(project, "Design Update", heap)]),
          user)

\* --------------------------------- src/unnamed/part_004: stage handlers

P4_managing(i) ==
  /\ variant = "P4"
  /\ inflight[i].stage = "managing"
  /\ \E r \in getManagerResponse :
       LET w == NoteOutcome(Done(i), r.ok /\ r.v # "")
           q == [w.p EXCEPT !.srs = r.v, !.status = "planning"]
       IN Step("executeCycle", Cost(r.ok /\ r.v # ""),
               IF r.ok THEN HandlerSets(w, "managing", q) ELSE Threw(w), user)

P4_planning(i) ==
  /\ variant = "P4"
  /\ inflight[i].stage = "planning"
  /\ \E r \in getPlannerResponse :
       LET w == NoteOutcome(Done(i), r.ok /\ r.v.k = "obj")
           q == [w.p EXCEPT !.plan = r.v, !.status = "designing"]
       IN Step("executeCycle", Cost(r.ok /\ r.v.k = "obj"),
               IF r.ok THEN HandlerSets(w, "planning", q) ELSE Threw(w), user)

P4_designing(i) ==
  /\ variant = "P4"
  /\ inflight[i].stage = "designing"
  /\ \E r \in getDesignerResponse :
       /\ inflight[i].cl.plan.k = "empty" => r = "throw"
       /\ LET w == NoteOutcome(Done(i), r = "obj")
              w1 == IF r = "obj" THEN [w EXCEPT !.heap = Append(@, "#111")] ELSE w
              design == IF r = "obj" THEN DesignObj(Len(w1.heap)) ELSE DesignEmpty
              q == [w.p EXCEPT !.designSystem = design, !.status = "architecting"]
          IN Step("executeCycle", Cost(r = "obj"),
                  IF r = "throw" THEN Threw(w) ELSE HandlerSets(w1, "designing", q),
                  user)

\* The merge of a plugin's mutations leaving the file system as it was, which
\* C13_PluginDispatch has to reject.
Mutate_Nothing(fs, mutations) == fs

\* result.mutations?.forEach(m => { fs[m.file] = m.content })
Mutate(fs, mutations) ==
  [f \in PathSet |->
     IF \E j \in 1..Len(mutations) : mutations[j].file = f
     THEN (CHOOSE m \in {mutations[j] : j \in 1..Len(mutations)} : m.file = f).content
     ELSE fs[f]]

\* executePluginAgent reads design.metadata.styleVibe before it calls the model
PluginResults(design) ==
  {r \in executePluginAgent : design.k # "obj" => ~r.ok}

P4_coding(i) ==
  /\ variant = "P4"
  /\ inflight[i].stage = "coding"
  /\ inflight[i].todo = <<>>
  /\ \E r \in getCoderResponse :
       LET h == inflight[i]
           files == Keys(h.cl.fileSystem)
           file == files[h.k]
           ok == r.ok /\ h.cl.plan.k = "obj"
           w == NoteOutcome(Done(i), ok)
           written == [w.p EXCEPT !.fileSystem = [@ EXCEPT ![file] = r.v]]
       IN IF ~ok THEN Step("executeCycle", 1, Threw(w), user)
          ELSE IF h.k < Len(files)
          THEN Step("executeCycle", 0,
                    [w EXCEPT !.p = [written EXCEPT !.currentFile = files[h.k + 1]],
                              !.hs = Append(@, [h EXCEPT !.k = h.k + 1])],
                    user)
          ELSE Step("executeCycle", 0,
                    P4_postCoding([w EXCEPT !.p = written], h), user)

\* a post-coding plugin returns
P4_codingPlugin(i) ==
  /\ variant = "P4"
  /\ inflight[i].stage = "coding"
  /\ inflight[i].todo # <<>>
  /\ \E r \in PluginResults(inflight[i].cl.designSystem) :
       LET h == inflight[i]
           w == NoteResult(NoteOutcome(Done(i), r.ok), "coding", r,
                           h.cl.designSystem)
           merged == [w.p EXCEPT !.fileSystem = Mutate(@, r.mutations)]
       IN IF ~r.ok THEN Step("executeCycle", 1, Threw(w), user)
          ELSE IF Len(h.todo) > 1
          THEN Step("executeCycle", 0,
                    NoteCall([w EXCEPT !.p = addLog(merged, "> Lifecycle Hook"),
                                       !.hs = Append(@, [h EXCEPT !.todo = Tail(@)])],
                             h.todo[2], "coding"),
                    user)
          ELSE Step("executeCycle", 0,
                    HandlerSets(w, "coding", [merged EXCEPT !.status = "reviewing"]),
                    user)

\* the reviewer returns
P4_reviewing(i) ==
  /\ variant = "P4"
  /\ inflight[i].stage = "reviewing"
  /\ inflight[i].todo = <<>>
  /\ \E r \in getReviewResponse :
       LET h == inflight[i]
           w == NoteOutcome(Done(i), r.ok /\ r.v.k = "obj")
           auditPlugins == Hooked(h.cl.installedPlugins, "post-audit")
       IN Step("executeCycle", Cost(r.ok /\ r.v.k = "obj"),
               IF ~r.ok THEN Threw(w)
               ELSE IF auditPlugins = <<>>
               THEN HandlerSets(w, "reviewing",
                                [w.p EXCEPT !.activeReview = r.v,
                                            !.status = "compiling"])
               ELSE NoteCall([w EXCEPT !.p = addLog(w.p, "> Audit Hook"),
                                       !.hs = Append(@, [h EXCEPT !.rev = r.v,
                                                                  !.todo = auditPlugins])],
                             auditPlugins[1], "reviewing"),
               user)

\* a post-audit plugin returns; its mutations are not used, and appending to
\* the comments of a report that has none ({}) throws
P4_auditPlugin(i) ==
  /\ variant = "P4"
  /\ inflight[i].stage = "reviewing"
  /\ inflight[i].todo # <<>>
  /\ \E r \in PluginResults(inflight[i].cl.designSystem) :
       LET h == inflight[i]
           ok == r.ok /\ (r.comments # <<>> => h.rev.k = "obj")
           w == NoteResult(NoteOutcome(Done(i), ok), "reviewing", r,
                           h.cl.designSystem)
           review == [h.rev EXCEPT !.comments = @ \o r.comments]
       IN IF ~ok THEN Step("executeCycle", 1, Threw(w), user)
          ELSE IF Len(h.todo) > 1
          THEN Step("executeCycle", 0,
                    NoteCall([w EXCEPT !.p = addLog(w.p, "> Audit Hook"),
                                       !.hs = Append(@, [h EXCEPT !.rev = review,
                                                                  !.todo = Tail(@)])],
                             h.todo[2], "reviewing"),
                    user)
          ELSE Step("executeCycle", 0,
                    HandlerSets(w, "reviewing",
                                [w.p EXCEPT !.activeReview = review,
                                            !.status = "compiling"]),
                    user)

\* the 800 ms timer of the compiling branch fires
P4_compiling(i) ==
  /\ variant = "P4"
  /\ inflight[i].stage = "compiling"
  /\ LET w == Done(i)
     IN Step("executeCycle", 0,
             HandlerSets(w, "compiling", [w.p EXCEPT !.status = "ready"]), user)

\* ----------------------------------- src/unnamed/part_004: user actions

\* GENERATE is disabled unless status is idle or ready; the Neural Pulse
\* button calls the same startGeneration and is never disabled.
P4_startGeneration ==
  /\ variant = "P4"
  /\ user
  /\ \E input \in {"", "todo app"} :
       IF input = ""
       THEN Step("startGeneration", 0, Now, user)
       ELSE LET q == [project EXCEPT
                        !.userPrompt = input,
                        !.status = "managing",
                        !.fileSystem = EmptyFS,
                        !.terminalLogs = Append(@, "> New Project"),
                        !.activeReview = ReviewNull]
                calmStart == inflight = <<>> /\ project.status \in {"idle", "ready"}
            IN Step("startGeneration", 1,
                    [Now EXCEPT !.p = q, !.obs = NoteRun(@, calmStart, q)],
                    user)

handlePluginToggle ==
  /\ variant = "P4"
  /\ user
  /\ \E n \in 1..Len(project.installedPlugins) :
       Step("handlePluginToggle", 1,
            NoteUser([Now EXCEPT
                        !.p = [project EXCEPT
                                 !.installedPlugins[n].enabled = ~@]]),
            user)

\* RUN NOW is rendered for enabled plugins, whatever the status is.
runPluginManually ==
  /\ variant = "P4"
  /\ user
  /\ \E n \in 1..Len(project.installedPlugins) :
       /\ project.installedPlugins[n].enabled
       /\ Step("runPluginManually", 1,
               NoteCall(
                 NoteUser([Now EXCEPT
                    !.p = addLog([project EXCEPT !.status = "plugging"],
                                 "> Manually triggering plugin"),
                    !.hs = Append(@, [Handler("plugging", project, 0) EXCEPT
                                        !.todo = <<project.installedPlugins[n]>>])]),
                 project.installedPlugins[n], "plugging"),
               user)

DefaultReview == [k |-> "obj", score |-> 100, comments |-> <<>>]

\* executePluginAgent returns to runPluginManually.  A state updater that
\* throws (comments appended to a report that has none) updates nothing.
runPluginManuallyDone(i) ==
  /\ variant = "P4"
  /\ inflight[i].stage = "plugging"
  /\ \E r \in PluginResults(inflight[i].cl.designSystem) :
       LET w == NoteResult(Done(i), "plugging", r, inflight[i].cl.designSystem)
           newReview == IF w.p.activeReview.k # "null" THEN w.p.activeReview
                        ELSE DefaultReview
           ok == r.ok /\ (r.comments # <<>> => newReview.k = "obj")
           q == captureSnapshot(
                  addLog([w.p EXCEPT
                            !.fileSystem = Mutate(@, r.mutations),
                            !.activeReview =
                               [newReview EXCEPT !.comments = @ \o r.comments],
                            !.status = "ready"],
                         "> execution finished."),
                  "Manual Run", w.heap)
       IN Step("runPluginManually", Cost(ok),
               IF ok THEN [w EXCEPT !.p = q] ELSE w, user)

\* ------------------------------------------------------------ specification

Init ==
  /\ variant \in Variants
  /\ project = DefaultProject(variant)
  /\ user \in BOOLEAN
  /\ inflight = <<>>
  /\ heap = <<>>
  /\ obs = InitObs
  /\ events = 0
  /\ disk = IF variant = "App" THEN NoItem(variant)
            ELSE Stored(DefaultProject(variant))
  /\ timeoutId = (variant = "App" /\ user)

Next ==
  \/ \E i \in 1..Len(inflight) : runManager(i)
  \/ \E i \in 1..Len(inflight) : runPlanner(i)
  \/ \E i \in 1..Len(inflight) : runDesigner(i)
  \/ \E i \in 1..Len(inflight) : runCoder(i)
  \/ \E i \in 1..Len(inflight) : runCompiler(i)
  \/ \E i \in 1..Len(inflight) : runPatcher(i)
  \/ \E i \in 1..Len(inflight) : P2_managing(i)
  \/ \E i \in 1..Len(inflight) : P2_planning(i)
  \/ \E i \in 1..Len(inflight) : P2_designing(i)
  \/ \E i \in 1..Len(inflight) : P2_coding(i)
  \/ \E i \in 1..Len(inflight) : P2_reviewing(i)
  \/ \E i \in 1..Len(inflight) : P2_compiling(i)
  \/ \E i \in 1..Len(inflight) : handleFixAuditDone(i)
  \/ \E i \in 1..Len(inflight) : P4_managing(i)
  \/ \E i \in 1..Len(inflight) : P4_planning(i)
  \/ \E i \in 1..Len(inflight) : P4_designing(i)
  \/ \E i \in 1..Len(inflight) : P4_coding(i)
  \/ \E i \in 1..Len(inflight) : P4_codingPlugin(i)
  \/ \E i \in 1..Len(inflight) : P4_reviewing(i)
  \/ \E i \in 1..Len(inflight) : P4_auditPlugin(i)
  \/ \E i \in 1..Len(inflight) : P4_compiling(i)
  \/ \E i \in 1..Len(inflight) : runPluginManuallyDone(i)
  \/ startGenerationApp
  \/ Reset
  \/ saveToDisk
  \/ reload
  \/ handleRestartWorkflow
  \/ handleLogout
  \/ onLogin
  \/ P2_startGeneration
  \/ onSelect
  \/ handleRollback
  \/ handleFixAudit
  \/ handleChange
  \/ onSync
  \/ tick
  \/ P4_startGeneration
  \/ handlePluginToggle
  \/ runPluginManually

Spec == Init /\ [][Next]_vars

\* ------------------------------------------------------------------ claims

IsPrefix(s, r) == Len(s) <= Len(r) /\ SubSeq(r, 1, Len(s)) = s

FullPipeline ==
  <<"managing", "planning", "designing", "architecting", "coding", "reviewing",
    "compiling", "ready">>

Pipeline(v) ==
  IF v = "App"
  THEN <<"managing", "planning", "designing", "architecting", "coding",
         "compiling", "ready">>
  ELSE FullPipeline

UndisturbedRun == obs.calm /\ obs.allOk /\ obs.heals = 0

ErrorLines ==
  {"Error in Manager", "Error in Planner", "Error in Designer",
   "Error in Architect", "Error in Coder", "Error in Patcher"}

\* C2: when a call inside a stage handler throws or rejects, status becomes
\* error and an error line is appended to terminalLogs.
C2_ThrowSetsError ==
  obs.threw =>
    /\ project.status = "error"
    /\ project.terminalLogs[Len(project.terminalLogs)] \in ErrorLines

\* C3: within one run status enters healing at most once and iterationCount
\* goes from 0 to exactly 1, never further.
C3_HealingOnce ==
  variant = "App" => (obs.heals <= 1 /\ project.iterationCount <= 1)

\* The stage handlers in flight.  The audit fix and the manual plugin run are
\* not stage handlers, and part_004's compiling branch has returned when only
\* its timer is pending.
StageHandlers ==
  SelectSeq(inflight,
            LAMBDA h : /\ h.stage \in Stages
                       /\ ~(variant = "P4" /\ h.stage = "compiling"))

\* C4: in every reachable state at most one stage handler is in flight.
C4_OneHandlerInFlight == Len(StageHandlers) <= 1

\* C5: for each entry of status into an active value its handler is started
\* exactly once; nothing that leaves status unchanged starts it again.
C5_StartedOnce == obs.starts <= 1

Successors(stage) ==
  CASE stage = "managing" -> {"planning", "error"}
    [] stage = "planning" -> {"designing", "error"}
    [] stage = "designing" -> {"architecting", "error"}
    [] stage = "architecting" -> {"coding", "error"}
    [] stage = "coding" -> {"reviewing", "error"}
    [] stage = "reviewing" -> {"compiling", "error"}
    [] stage = "compiling" -> {"ready", "healing", "error"}
    [] stage = "healing" -> {"compiling", "error"}
    [] OTHER -> {}

\* C6: every status change made by a stage handler is a transition of the
\* fixed table, taken from the status the handler was started for.
C6_TableTransitions ==
  \A n \in 1..Len(obs.moves) :
    LET actor == obs.moves[n][1]
        from == obs.moves[n][2]
        to == obs.moves[n][3]
    IN from = actor /\ to \in Successors(actor)

\* C7: in every reachable state the data the current status requires is
\* present: srs (non-empty) for planning, plan for designing and
\* architecting, plan and designSystem for coding, designSystem for
\* reviewing.
C7_RequiredData ==
  /\ project.status = "planning" => ~Falsy(project.srs)
  /\ project.status \in {"designing", "architecting", "coding"}
       => project.plan.k # "undefined"
  /\ project.status \in {"coding", "reviewing"}
       => project.designSystem.k # "undefined"

\* C8: during a successful run history grows by exactly one at each stage
\* completion and by nothing else, seven snapshots in all: after the k-th
\* status of the run, history is k - 1 entries longer than at the start.
C8_OneSnapshotPerStage ==
  (variant \in {"P2", "P4"} /\ UndisturbedRun /\ obs.trace # <<>>)
    => Len(project.history) = obs.hist0 + Len(obs.trace) - 1

\* C9: a stored snapshot shares no mutable data with live state: whatever is
\* done later, the snapshot's design system reads as it did at capture time.
C9_SnapshotIndependent ==
  \A n \in 1..Len(project.history) :
    Look(heap, project.history[n].designSystem) = project.history[n].seen

\* The entries of history h apart from the identity of their design objects,
\* which a page load renews.
Entries(h) ==
  [n \in 1..Len(h) |-> [h[n] EXCEPT !.designSystem = [@ EXCEPT !.colors = 0]]]

\* C10, as the code has it: every operation other than Reset, and other than
\* starting a new run in part_002 (which empties history), leaves the previous
\* history a prefix of the new one.
C10_AppendOnly ==
  [][\/ obs'.op = "Reset"
     \/ (variant = "P2" /\ obs'.op = "startGeneration")
     \/ IsPrefix(Entries(project.history), Entries(project'.history))]_vars

C10_Witness ==
  /\ variant = "P2"
  /\ obs.op = "handleRollback"
  /\ project.status = "ready"
  /\ Len(project.history) >= 7

\* C10 as stated: every operation other than Reset, starting a new run
\* included, leaves the previous history a prefix of the new one.
C10_AsStated ==
  [][\/ obs'.op = "Reset"
     \/ IsPrefix(Entries(project.history), Entries(project'.history))]_vars

\* The step is a rollback to a snapshot that history holds.
RolledBack == obs'.op = "handleRollback" /\ HasSnapshot(project, project.selectedHistoryId)

\* C11, as the code has it: rollback(id) for an id present in history sets live
\* fileSystem and activeReview equal to the snapshot's fileSystem and
\* reviewReport (null when it has none), sets designSystem to the snapshot's
\* when the snapshot has one and leaves the live designSystem as it is when the
\* snapshot has none, sets status to ready and selectedHistoryId to null, and
\* appends exactly one line to terminalLogs.
C11_Rollback ==
  [][RolledBack =>
       LET snap == Snapshot(project, project.selectedHistoryId)
       IN /\ project'.fileSystem = snap.fileSystem
          /\ project'.designSystem = IF snap.designSystem.k = "undefined"
                                     THEN project.designSystem
                                     ELSE snap.designSystem
          /\ project'.activeReview = snap.reviewReport
          /\ project'.status = "ready"
          /\ project'.selectedHistoryId = NoId
          /\ Len(project'.terminalLogs) = Len(project.terminalLogs) + 1
          /\ IsPrefix(project.terminalLogs, project'.terminalLogs)]_vars

\* A rollback to a snapshot without a design system, made when live state had
\* one, has just happened.
C11_Witness ==
  /\ obs.op = "handleRollback"
  /\ project.status = "ready"
  /\ project.designSystem.k = "obj"
  /\ \E n \in 1..Len(project.history) :
        /\ project.history[n].designSystem.k = "undefined"
        /\ project.history[n].fileSystem = project.fileSystem
        /\ project.history[n].reviewReport = project.activeReview

\* C11 as stated: after the rollback live designSystem equals the snapshot's,
\* also when the snapshot has none.
C11_AsStated ==
  [][RolledBack =>
       project'.designSystem
         = Snapshot(project, project.selectedHistoryId).designSystem]_vars

\* The ids of the snapshots in history.
HistoryIds == {project.history[n].id : n \in 1..Len(project.history)}

\* C12: rollback(id) applied twice in a row leaves the same live fileSystem
\* and designSystem as applied once, and after a rollback history has the same
\* entries in the same order as before, those captured after the restored
\* snapshot included.
C12_RollbackIdempotent ==
  /\ [](variant = "P2" =>
          \A id \in HistoryIds :
            LET once == rollback(project, id)
                twice == rollback(once, id)
            IN /\ twice.fileSystem = once.fileSystem
               /\ twice.designSystem = once.designSystem
               /\ once.history = project.history
               /\ twice.history = project.history)
  /\ [][RolledBack => project'.history = project.history]_vars

\* A rollback to a snapshot that is not the last one has just happened, and the
\* later snapshots are still there.
C12_Witness ==
  /\ obs.op = "handleRollback"
  /\ project.selectedHistoryId = NoId
  /\ \E n \in 1..Len(project.history) :
        /\ n < Len(project.history)
        /\ project.history[n].fileSystem = project.fileSystem
        /\ project.history[Len(project.history)].fileSystem # project.fileSystem

\* The handlers awaiting getReviewResponse; h.cl.fileSystem is what the call
\* was given.
ReviewerCalls ==
  {inflight[n] : n \in {m \in 1..Len(inflight) :
                          /\ inflight[m].stage = "reviewing"
                          /\ inflight[m].todo = <<>>}}

PluginEnabled(id) ==
  \E n \in 1..Len(project.installedPlugins) :
    project.installedPlugins[n].id = id /\ project.installedPlugins[n].enabled

\* C13: in a pipeline run (started from idle or ready with nothing in flight,
\* the user doing nothing else) every mutation a post-coding plugin returned is
\* present in the fileSystem the reviewer call receives; and when the run was
\* started while the post-coding plugin is disabled, no step invokes it.
C13_PluginDispatch ==
  obs.calm =>
    /\ \A h \in ReviewerCalls :
         \A m \in obs.muts : h.cl.fileSystem[m.file] = m.content
    /\ ~PluginEnabled("scribe-seo")
         => \A n \in 1..Len(obs.calls) : obs.calls[n].id # "scribe-seo"

\* The reviewer has been called in a run whose post-coding plugin returned a
\* mutation.
C13_Witness ==
  /\ variant = "P4"
  /\ obs.calm
  /\ obs.muts # {}
  /\ project.status = "reviewing"
  /\ \E h \in ReviewerCalls : h.cl.fileSystem["src/App.tsx"] = "plugin"

\* The post-coding plugin calls in flight; h.cl.fileSystem is the fileSystem
\* the plugin was given.
PostCodingCalls ==
  {inflight[n] : n \in {m \in 1..Len(inflight) :
                          /\ inflight[m].stage = "coding"
                          /\ inflight[m].todo # <<>>}}

\* C14: a post-coding plugin is invoked with the current file system: every
\* file it is given holds the coder's output of this run, not the architect's
\* placeholder.
C14_PluginSeesCode ==
  (variant = "P4" /\ obs.calm /\ obs.allOk) =>
    \A h \in PostCodingCalls :
      \A f \in PathSet :
        h.cl.fileSystem[f] # Absent => h.cl.fileSystem[f] = project.fileSystem[f]

IsSuffix(s, r) == Len(s) <= Len(r) /\ SubSeq(r, Len(r) - Len(s) + 1, Len(r)) = s

\* C15: for every automatically dispatched plugin, of either hook, both parts
\* of its result are applied: each returned mutation sets fileSystem[file] to
\* its content, and the returned comments are appended to
\* activeReview.comments.
C15_ResultApplied ==
  (variant = "P4" /\ obs.calm /\ obs.allOk) =>
    \A n \in 1..Len(obs.res) :
      LET x == obs.res[n]
      IN (x.at \in {"coding", "reviewing"} /\ x.r.ok) =>
           /\ \A j \in 1..Len(x.r.mutations) :
                 project.fileSystem[x.r.mutations[j].file] = x.r.mutations[j].content
           /\ IsSuffix(x.r.comments, project.activeReview.comments)

\* C16: a plugin is invoked automatically only at the completion of the stage
\* matching its hook (post-coding at coding, post-audit at reviewing, on-demand
\* never automatically), and a plugin whose enabled flag is false at the
\* moment of dispatch is not invoked, automatically or manually.
C16_EnabledAtDispatch ==
  \A n \in 1..Len(obs.calls) :
    LET c == obs.calls[n]
    IN /\ c.live
       /\ c.at = "coding" => c.hook = "post-coding"
       /\ c.at = "reviewing" => c.hook = "post-audit"

\* The step is the return of a manual run's plugin call; a call that threw
\* before reaching the model, or whose result could not be merged, counts.
ManualRunReturned ==
  /\ obs'.op = "runPluginManually"
  /\ obs'.res # <<>>
  /\ ~(obs'.res[1].design /\ ~obs'.res[1].r.ok)

\* C17: a manual plugin run invokes the plugin exactly once, merges its
\* mutations into fileSystem and its comments into activeReview.comments, and
\* appends exactly one history snapshot labelled "Manual Run" whose stored
\* fileSystem and reviewReport already contain the merged result, from any
\* status in which the run is triggered (a rejection by the model service
\* itself apart).
C17_ManualRun ==
  [][/\ (obs'.op = "runPluginManually" /\ obs'.res = <<>>) => Len(obs'.calls) = 1
     /\ ManualRunReturned =>
          LET r == obs'.res[1].r
              last == project'.history[Len(project'.history)]
          IN /\ Len(project'.history) = Len(project.history) + 1
             /\ IsPrefix(project.history, project'.history)
             /\ last.label = "Manual Run"
             /\ last.fileSystem = project'.fileSystem
             /\ last.reviewReport = project'.activeReview
             /\ \A j \in 1..Len(r.mutations) :
                   project'.fileSystem[r.mutations[j].file] = r.mutations[j].content
             /\ IsSuffix(r.comments, project'.activeReview.comments)]_vars

\* p is the value Reset sets, whatever its terminalLogs are.
IsDefaultState(p) ==
  [p EXCEPT !.terminalLogs = <<>>]
    = [DefaultProject("App") EXCEPT !.terminalLogs = <<>>]

\* C18: after the Reset action live state has fileSystem = {}, status = idle
\* and history = [], and from then until the next run the storage key is
\* absent or holds that default state.
C18_Reset ==
  obs.reset =>
    /\ obs.op = "Reset" =>
         /\ project.fileSystem = EmptyFS
         /\ project.status = "idle"
         /\ project.history = <<>>
         /\ ~disk.saved
    /\ disk.saved => IsDefaultState(disk.p)

StageOps ==
  {"runManager", "runPlanner", "runDesigner", "runCoder", "runCompiler",
   "runPatcher"}

\* C19: Reset cancels nothing: the handlers in flight stay in flight, and a
\* handler that continues in the state Reset left applies its result to that
\* state: it changes the project and moves status out of idle, or, when it is
\* the coder with files still to do, leaves its code in fileSystem.
C19_NoCancellation ==
  [][variant = "App" =>
       /\ obs'.op = "Reset" => inflight' = inflight
       /\ (obs'.op \in StageOps /\ obs.reset /\ project.status = "idle") =>
            /\ project' # project
            /\ \/ project'.status # "idle"
               \/ /\ obs'.op = "runCoder"
                  /\ \E f \in PathSet : project'.fileSystem[f] = "code"]_vars

\* Reset happened while the coder was awaiting its call, and the coder has
\* since written its files into the reset state and set status to compiling.
C19_Witness ==
  /\ variant = "App"
  /\ obs.reset
  /\ obs.op = "runCoder"
  /\ project.userPrompt = ""
  /\ project.status \in {"compiling", "ready", "healing"}
  /\ project.fileSystem["src/App.tsx"] = "code"

\* C20: a new run is started only when status is idle or ready: in every
\* other status no user control invokes startGeneration, so status never
\* becomes managing from an active status.
C20_RunOnlyWhenIdle ==
  [][(obs'.op = "startGeneration" /\ project' # project)
       => project.status \in {"idle", "ready"}]_vars


\* C21: an empty LLM response is treated as an empty structure and the run
\* continues: in a run the user does not disturb, App.tsx (whose handlers
\* catch every rejected call) never stops in an active status with no handler
\* in flight.
C21_EmptyTolerated ==
  (variant = "App" /\ obs.calm) =>
    ~(project.status \in Stages /\ inflight = <<>>)


\* The file system being displayed: the selected snapshot's in snapshot mode,
\* the live one otherwise.
DisplayedFS ==
  IF project.selectedHistoryId # NoId /\ HasSnapshot(project, project.selectedHistoryId)
  THEN Snapshot(project, project.selectedHistoryId).fileSystem
  ELSE project.fileSystem

\* C22: in every reachable state currentFile is null or a key of the file
\* system being displayed.
C22_CurrentFileIsKey ==
  project.currentFile = NoFile \/ DisplayedFS[project.currentFile] # Absent


\* C23: while selectedHistoryId is not null no user action other than rollback
\* and leaving snapshot mode changes the live fileSystem, designSystem or
\* activeReview.  (executeCycle steps are the pipeline's, not the user's.)
C23_SnapshotModeReadOnly ==
  [][(project.selectedHistoryId # NoId
      /\ obs'.op \notin {"handleRollback", "onSelect", "executeCycle"}) =>
       /\ project'.fileSystem = project.fileSystem
       /\ project'.designSystem = project.designSystem
       /\ Look(heap', project'.designSystem) = Look(heap, project.designSystem)
       /\ project'.activeReview = project.activeReview]_vars


\* The coder requests in flight; h.k is the index of the requested file among
\* the keys fileSystem had when the stage started.
CoderCalls ==
  {inflight[n] : n \in {m \in 1..Len(inflight) :
                          /\ inflight[m].stage = "coding"
                          /\ inflight[m].todo = <<>>}}

IsPlaceholder(s) == s \in {"// Coding in progress...", "// Initializing..."}

\* C24: in the coding stage of a run the user does not disturb, the files are
\* coded one after another in key order: at most one coder request is in
\* flight, currentFile is the file being requested, the files before it hold
\* their code and the others still the placeholder, and status has left coding
\* for a later stage only when no file holds the placeholder any more.
C24_SequentialCoding ==
  obs.calm =>
    /\ Cardinality(CoderCalls) <= 1
    /\ \A h \in CoderCalls :
         LET files == Keys(h.cl.fileSystem)
         IN /\ project.status = "coding"
            /\ project.currentFile = files[h.k]
            /\ \A j \in 1..Len(files) :
                 IF j < h.k THEN project.fileSystem[files[j]] = "code"
                 ELSE IsPlaceholder(project.fileSystem[files[j]])
    /\ (obs.trace # <<>>
        /\ project.status \in {"reviewing", "compiling", "healing", "ready"}) =>
         \A f \in PathSet : ~IsPlaceholder(project.fileSystem[f])

\* The second file's request is in flight and the first file is written.
C24_Witness ==
  /\ obs.calm
  /\ \E h \in CoderCalls : h.k = 2
  /\ project.fileSystem["src/App.tsx"] = "code"
  /\ project.currentFile = "src/lib/mockData.ts"


\* C25: a resource-simulator tick changes only the resources field of the
\* project, and nothing else of the program's state: the handlers in flight and
\* what they closed over, the design objects, the status sequence recorded so
\* far and the login are as before.
C25_TickFrame ==
  [][obs'.op = "tick" =>
       /\ [project' EXCEPT !.resources = project.resources] = project
       /\ inflight' = inflight
       /\ heap' = heap
       /\ user' = user
       /\ obs'.trace = obs.trace
       /\ obs'.calm = obs.calm]_vars

\* A tick has happened while the coder was at work in an undisturbed run.
C25_Witness ==
  /\ obs.op = "tick"
  /\ obs.calm
  /\ obs.allOk
  /\ project.status = "coding"
  /\ project.resources.cpu > 1200
  /\ CoderCalls # {}


\* x lies between a and b, ends included.
Between(x, a, b) == (a <= x /\ x <= b) \/ (b <= x /\ x <= a)

\* C26, as the code has it: cpu and memory are never negative, and a tick
\* moves cpu toward the tick's target without passing it: cpu ends between its
\* old value and the target, on the side it came from.
C26_CpuApproaches ==
  /\ [](project.resources.cpu >= 0 /\ project.resources.memory >= 0)
  /\ [][obs'.op = "tick" =>
          \E rc \in RandomCpu :
            /\ Between(project'.resources.cpu, project.resources.cpu,
                       cpuTarget(project, rc))
            /\ (project.resources.cpu # cpuTarget(project, rc)
                  => project'.resources.cpu # project.resources.cpu)]_vars

\* A tick has just happened and cpu is above the target of the status, because
\* status went from coding back to a status with the idle target.
C26_Witness ==
  /\ obs.op = "tick"
  /\ project.status \notin {"coding", "reviewing"}
  /\ project.resources.cpu > cpuTarget(project, 0)

\* C26 as stated: after a tick cpu does not exceed the current target.
C26_AsStated ==
  obs.op = "tick" => project.resources.cpu <= cpuTarget(project, 19000)


\* Nothing is pending: no handler awaits anything and no auto-save timer runs.
Settled == inflight = <<>> /\ ~timeoutId

C28_FailureFrame ==
  [][obs'.threw =>
       [project' EXCEPT !.status = project.status,
                        !.terminalLogs = project.terminalLogs] = project]_vars


\* C29: when a run of part_004 that started from rest has reached ready, with
\* whatever values the planner, designer and reviewer returned, fileSystem
\* has the keys src/App.tsx and src/lib/mockData.ts, designSystem is a theme
\* with metadata.appName, and activeReview is a report with a score in 0..100.
C29_RunOutputs ==
  (variant = "P4" /\ obs.calm /\ project.status = "ready"
     /\ obs.trace # <<>> /\ obs.trace[Len(obs.trace)] = "ready")
    => /\ \A f \in PathSet : project.fileSystem[f] # Absent
       /\ project.designSystem.k = "obj"
       /\ project.activeReview.k = "obj"
       /\ project.activeReview.score \in 0..100


PlanFiles(plan) == {plan.files[i] : i \in 1..Len(plan.files)}

FileKeys(fs) == {f \in PathSet : fs[f] # Absent}

\* C30: in a run of App.tsx that started from rest and is not disturbed, once
\* the architect has run the keys of fileSystem are exactly plan.files, all
\* with the placeholder as the coder starts, and coder, compiler and patcher
\* neither add nor remove a key.
C30_KeysFromPlan ==
  (variant = "App" /\ obs.calm
     /\ project.status \in {"coding", "compiling", "healing", "ready"})
    => /\ FileKeys(project.fileSystem) = PlanFiles(project.plan)
       /\ (obs.op = "runDesigner"
             => \A f \in FileKeys(project.fileSystem) :
                  IsPlaceholder(project.fileSystem[f]))


\* C31: terminalLogs is append-only: in every step of a session other than
\* Reset the log before the step is a prefix of the log after it, and a
\* rollback appends one line to the live log instead of restoring the
\* snapshot's stored log.  A page load is no operation of the session: it
\* begins a new one with the log that storage holds.
C31_LogAppendOnly ==
  [][/\ obs'.op \notin {"Reset", "reload", "handleRestartWorkflow"}
          => IsPrefix(project.terminalLogs, project'.terminalLogs)
     /\ RolledBack
          => project'.terminalLogs =
               Append(project.terminalLogs, "> Restored to checkpoint")]_vars

\* A rollback has just restored a snapshot whose stored log is shorter than the
\* live log was: the live log is kept and ends with the rollback's line.
C31_Witness ==
  /\ obs.op = "handleRollback"
  /\ project.terminalLogs[Len(project.terminalLogs)] = "> Restored to checkpoint"
  /\ \E n \in 1..Len(project.history) :
       /\ project.history[n].fileSystem = project.fileSystem
       /\ Len(project.history[n].terminalLogs) + 1 < Len(project.terminalLogs)


\* C32: after a session is restored from storage, status is idle, ready or
\* error, and the load has started no stage handler.
C32_RestoreIdle ==
  obs.op = "reload"
    => /\ project.status \in {"idle", "ready", "error"}
       /\ inflight = <<>>


\* The last snapshot of history h.
Latest(h) == h[Len(h)]

\* C33: a step that appends snapshots leaves as the latest one a capture of
\* the merged live state: its fileSystem, designSystem, reviewReport and
\* status are those of live state after the step.  In a run that is not
\* disturbed the coding milestone holds every file coded and the audit
\* milestone holds the review report.
C33_SnapshotAfterMerge ==
  [][(Len(project'.history) > Len(project.history)
        /\ IsPrefix(project.history, project'.history))
       => LET s == Latest(project'.history)
          IN /\ s.status = project'.status
             /\ s.fileSystem = project'.fileSystem
             /\ s.designSystem = project'.designSystem
             /\ s.reviewReport = project'.activeReview
             /\ (obs'.calm /\ s.label = "Implementation Complete")
                  => \A f \in PathSet :
                       s.fileSystem[f] # Absent => ~IsPlaceholder(s.fileSystem[f])
             /\ (obs'.calm /\ s.label = "Neural Audit Complete")
                  => s.reviewReport.k # "null"]_vars

\* The audit milestone has just been captured with the reviewer's report, and
\* the coding milestone before it holds the coded files.
C33_Witness ==
  /\ variant = "P2"
  /\ obs.calm
  /\ obs.allOk
  /\ project.history # <<>>
  /\ Latest(project.history).label = "Neural Audit Complete"
  /\ Latest(project.history).reviewReport = ReviewObj
  /\ project.activeReview = ReviewObj
  /\ \E n \in 1..Len(project.history) :
       /\ project.history[n].label = "Implementation Complete"
       /\ \E f \in PathSet : project.history[n].fileSystem[f] = "code"


\* The values of status in which the Run controls are disabled.
Busy ==
  {"managing", "planning", "designing", "architecting", "coding", "reviewing",
   "plugging", "compiling", "healing"}

\* C34: no handler ends while leaving status at an active value: while a user
\* is logged in, a busy status always has a handler in flight that will move
\* it on, so that every run reaches ready or error.
C34_NoStuckStage ==
  (user /\ project.status \in Busy) => inflight # <<>>


\* C35: selectedHistoryId is null or the id of an entry of history, and
\* selecting a snapshot or returning to live view changes no field of the
\* project other than selectedHistoryId, and starts or ends no handler.
C35_SelectionValid ==
  /\ [](project.selectedHistoryId \in {NoId} \cup HistoryIds)
  /\ [][obs'.op = "onSelect"
          => /\ [project' EXCEPT !.selectedHistoryId = project.selectedHistoryId]
                  = project
             /\ project'.selectedHistoryId # project.selectedHistoryId
             /\ inflight' = inflight
             /\ heap' = heap]_vars

\* A snapshot has just been selected while the run that took it is still going.
C35_Witness ==
  /\ obs.op = "onSelect"
  /\ project.selectedHistoryId # NoId
  /\ project.selectedHistoryId \in HistoryIds
  /\ project.status \in Busy
  /\ inflight # <<>>


\* C36: handleRollback(id) with an id that no entry of history has changes
\* nothing: every field of the project, history and selectedHistoryId
\* included, is as before, and no handler is started or ended.
C36_RollbackUnknownId ==
  [][obs'.op = "handleRollback: no snapshot"
       => /\ project' = project
          /\ inflight' = inflight
          /\ heap' = heap]_vars

\* handleRollback has just returned at its guard while a snapshot is selected
\* and a run is going.
C36_Witness ==
  /\ obs.op = "handleRollback: no snapshot"
  /\ project.history # <<>>
  /\ project.selectedHistoryId # NoId
  /\ project.status \in Busy


\* C37: after the error boundary's Restart Workflow the application starts
\* from the default project state, not from what was persisted.
C37_RestartFromDefault ==
  obs.op = "handleRestartWorkflow"
    => /\ project.status = "idle"
       /\ project.fileSystem = EmptyFS
       /\ project.userPrompt = ""
       /\ inflight = <<>>

====
